---- MODULE Spec2Model ----
(***************************************************************************)
(* Request/response correlation layer of the actor framework:             *)
(* response_promise (libcaf_core/src/response_promise.cpp).                *)
(*                                                                         *)
(* An actor takes a mailbox_element (envelope) off its mailbox, may build  *)
(* a response_promise from it, and later calls deliver / deliver_impl.     *)
(* Delivery either answers the original sender or forwards the envelope    *)
(* one hop down the forwarding stack.                                      *)
(***************************************************************************)
EXTENDS Integers, Sequences, FiniteSets, TLC

\* ---------------------------------------------------------------- bounds
MaxChain == 2
MaxPromises == 3
MaxCalls == 3

\* ---------------------------------------------------------------- actors
NullActor == "null"
Originator == "S"
Handler == "H"
Recipients == {"A", "B"}

\* ------------------------------------------------------------ message_id
\* The correlation id: numeric identifier (0: no reply expected), role flag,
\* answered flag.
Nums == {0, 42}

MessageIds == [num : Nums, role : {"request", "response"}, answered : BOOLEAN]

\* Result of response_id() outside its domain (not a request-role id).
UndefinedId == [num |-> 0, role |-> "undefined", answered |-> FALSE]

valid(id) == id.num # 0

is_response(id) == id.role = "response"

is_request(id) == valid(id) /\ ~is_response(id)

response_id(id) == IF is_request(id) THEN [id EXCEPT !.role = "response"] ELSE UndefinedId

mark_as_answered(id) == [id EXCEPT !.answered = TRUE]

\* --------------------------------------------------------------- message
Values == {"v"}
Errors == {"e"}

\* make_message(error): the error wrapped in the generic payload type.
make_message(x) == [kind |-> "error", body |-> x]

ValueMessages == [kind : {"value"}, body : Values]
RequestPayload == [kind |-> "value", body |-> "req"]

\* ----------------------------------------------------------------- state
VARIABLES
  envs,     \* mailbox elements: [owner, sender, mid, stages, payload]
  emeta,    \* per envelope: [root, hops, from, consumed] (bookkeeping)
  proms,    \* response promises: [self_, source_, stages_, id_]
  pmeta,    \* per promise: [env, calls, alive, spent, made] (bookkeeping)
  log,      \* the enqueue calls issued so far, in order
  crashed,  \* the process died on a null handle
  last,     \* the last operation: [op, p, pre, arg, n]
  req       \* the request as the mailbox handed it over (never changes)

vars == <<envs, emeta, proms, pmeta, log, crashed, last, req>>

Chains == UNION {[1..n -> Recipients] : n \in 0..MaxChain}

RequestIds == [num : Nums, role : {"request"}, answered : {FALSE}]

\* What the mailbox hands to the handler: a request from the originator with
\* a forwarding stack.
InitEnvelopes == [owner : {Handler}, sender : {Originator}, mid : RequestIds,
                  stages : Chains, payload : {RequestPayload}]

NoPromise == [self_ |-> NullActor, source_ |-> NullActor, stages_ |-> <<>>, id_ |-> UndefinedId]

NoLast == [op |-> "init", p |-> 0, pre |-> NoPromise, arg |-> RequestPayload, n |-> 0]

Init ==
  /\ envs \in {<<a>> : a \in InitEnvelopes}
  /\ emeta = <<[root |-> 1, hops |-> 0, from |-> 0, consumed |-> 0]>>
  /\ proms = <<>>
  /\ pmeta = <<>>
  /\ log = <<>>
  /\ crashed = FALSE
  /\ last = NoLast
  /\ req = envs[1]

\* ------------------------------------------------- response_promise ctor
\* Variant: the id is copied after src.mid.mark_as_answered() ran.
PromiseFromMarked(src) ==
  [self_ |-> src.owner, source_ |-> src.sender, stages_ |-> src.stages,
   id_ |-> mark_as_answered(src.mid)]

\* response_promise(local_actor* self, mailbox_element& src)
PromiseFrom(src) ==
  [self_ |-> src.owner, source_ |-> src.sender, stages_ |-> src.stages, id_ |-> src.mid]

\* Variant: sender and stages are copied, not moved, out of the envelope.
ConsumedByCopy(src) == [src EXCEPT !.mid = mark_as_answered(src.mid)]

\* The envelope after the constructor ran: sender and stages moved out,
\* src.mid.mark_as_answered().
Consumed(src) ==
  [src EXCEPT !.sender = NullActor, !.stages = <<>>, !.mid = mark_as_answered(src.mid)]

\* Variant: the constructor answers the request on the spot.
ConstructAnswering(e) ==
  /\ ~crashed
  /\ Len(proms) < MaxPromises
  /\ proms' = Append(proms, PromiseFrom(envs[e]))
  /\ pmeta' = Append(pmeta, [env |-> e, calls |-> 0, alive |-> TRUE,
                             spent |-> emeta[e].consumed > 0,
                             made |-> PromiseFrom(envs[e])])
  /\ envs' = [envs EXCEPT ![e] = Consumed(envs[e])]
  /\ emeta' = [emeta EXCEPT ![e].consumed = @ + 1]
  /\ last' = [op |-> "construct", p |-> Len(proms) + 1, pre |-> NoPromise,
              arg |-> RequestPayload, n |-> Len(log)]
  /\ log' = Append(log, [kind |-> "terminal", target |-> envs[e].sender,
                         sender |-> envs[e].owner, mid |-> envs[e].mid, stages |-> <<>>,
                         payload |-> RequestPayload, by |-> Len(proms) + 1])
  /\ UNCHANGED <<crashed, req>>

Construct(e) ==
  /\ ~crashed
  /\ Len(proms) < MaxPromises
  /\ proms' = Append(proms, PromiseFrom(envs[e]))
  /\ pmeta' = Append(pmeta, [env |-> e, calls |-> 0, alive |-> TRUE,
                             spent |-> emeta[e].consumed > 0,
                             made |-> PromiseFrom(envs[e])])
  /\ envs' = [envs EXCEPT ![e] = Consumed(envs[e])]
  /\ emeta' = [emeta EXCEPT ![e].consumed = @ + 1]
  /\ last' = [op |-> "construct", p |-> Len(proms) + 1, pre |-> NoPromise,
              arg |-> RequestPayload, n |-> Len(log)]
  /\ UNCHANGED <<log, crashed, req>>

\* ------------------------------------------------------------ deliver_impl
\* response_promise::valid(): the promise's id is valid.
promise_valid(p) == valid(p.id_)

\* Variant: the reply is addressed to the delivering actor and signed by the
\* requester (target and sender argument swapped).
TerminalCallSwapped(p, msg) ==
  [kind |-> "terminal", target |-> p.self_, sender |-> p.source_,
   mid |-> response_id(p.id_), stages |-> <<>>, payload |-> msg]

\* Variant: the reply carries the request id as it is.
TerminalCallRequestId(p, msg) ==
  [kind |-> "terminal", target |-> p.source_, sender |-> p.self_,
   mid |-> p.id_, stages |-> <<>>, payload |-> msg]

\* source_->enqueue(self_->address(), id_.response_id(), std::move(msg), ctx)
TerminalCall(p, msg) ==
  [kind |-> "terminal", target |-> p.source_, sender |-> p.self_,
   mid |-> response_id(p.id_), stages |-> <<>>, payload |-> msg]

\* Variant: the next hop is taken from the front of the stack.
ForwardCallFront(p, msg) ==
  [kind |-> "forward", target |-> p.stages_[1], sender |-> p.source_,
   mid |-> p.id_, stages |-> SubSeq(p.stages_, 2, Len(p.stages_)), payload |-> msg]

\* Variant: the next hop is read but not popped off the stack.
ForwardCallKeep(p, msg) ==
  [kind |-> "forward", target |-> p.stages_[Len(p.stages_)], sender |-> p.source_,
   mid |-> p.id_, stages |-> p.stages_, payload |-> msg]

\* Variant: the forwarded envelope is tagged with the response id.
ForwardCallResponseId(p, msg) ==
  [kind |-> "forward", target |-> p.stages_[Len(p.stages_)], sender |-> p.source_,
   mid |-> response_id(p.id_), stages |-> SubSeq(p.stages_, 1, Len(p.stages_) - 1),
   payload |-> msg]

\* next->enqueue(mailbox_element::make(std::move(source_), id_,
\*                                     std::move(stages_), std::move(msg)), ctx)
\* with next = stages_.back() and stages_.pop_back() done before.
ForwardCall(p, msg) ==
  [kind |-> "forward", target |-> p.stages_[Len(p.stages_)], sender |-> p.source_,
   mid |-> p.id_, stages |-> SubSeq(p.stages_, 1, Len(p.stages_) - 1), payload |-> msg]

\* Variant: source_ is copied into the forwarded envelope, not moved.
ForwardedByCopy(p) == [p EXCEPT !.stages_ = <<>>]

\* The promise after a forwarding delivery: source_ and stages_ moved out.
Forwarded(p) == [p EXCEPT !.source_ = NullActor, !.stages_ = <<>>]

\* Variant: a terminal delivery invalidates the promise's id.
FinalizedInvalid(p) == [p EXCEPT !.id_ = [@ EXCEPT !.num = 0]]

\* Variant: a terminal delivery moves the sender handle out of the promise.
FinalizedMovedOut(p) == [p EXCEPT !.source_ = NullActor]

\* The promise after a terminal delivery: no member is written.
Finalized(p) == p

\* Variant: the forwarding stack is ignored, every delivery answers the sender.
deliver_impl_direct(p, msg) ==
  IF ~promise_valid(p) THEN [prom |-> p, calls |-> <<>>]
  ELSE [prom |-> Finalized(p), calls |-> <<TerminalCall(p, msg)>>]

\* Variant: the validity check is missing.
deliver_impl_unchecked(p, msg) ==
  IF p.stages_ = <<>>
  THEN [prom |-> Finalized(p), calls |-> <<TerminalCall(p, msg)>>]
  ELSE [prom |-> Forwarded(p), calls |-> <<ForwardCall(p, msg)>>]

\* deliver_impl(msg): the promise afterwards and the enqueue calls issued.
deliver_impl(p, msg) ==
  IF ~promise_valid(p) THEN [prom |-> p, calls |-> <<>>]
  ELSE IF p.stages_ = <<>>
       THEN [prom |-> Finalized(p), calls |-> <<TerminalCall(p, msg)>>]
       ELSE [prom |-> Forwarded(p), calls |-> <<ForwardCall(p, msg)>>]

\* Variant: an error takes a path of its own, straight to the sender.
deliver_own_path(p, x) ==
  IF valid(p.id_)
  THEN [prom |-> p, calls |-> <<TerminalCall(p, make_message(x))>>]
  ELSE [prom |-> p, calls |-> <<>>]

\* deliver(error x): if (id_.valid()) deliver_impl(make_message(std::move(x)))
deliver(p, x) ==
  IF valid(p.id_) THEN deliver_impl(p, make_message(x)) ELSE [prom |-> p, calls |-> <<>>]

\* The mailbox element an enqueue call puts into the target's mailbox.
Delivered(c) ==
  [owner |-> c.target, sender |-> c.sender, mid |-> c.mid, stages |-> c.stages,
   payload |-> c.payload]

\* Variant: sender and chain live in the actor, shared by all its promises.
WrittenShared(i, r) ==
  [j \in DOMAIN proms |->
     IF j = i THEN r.prom
     ELSE IF proms[j].self_ = proms[i].self_
          THEN [proms[j] EXCEPT !.source_ = r.prom.source_, !.stages_ = r.prom.stages_]
          ELSE proms[j]]

\* deliver_impl writes the members of the promise it is called on, no other.
Written(i, r) == [proms EXCEPT ![i] = r.prom]

\* Variant: enqueues are issued in the order the promises were created.
IssuedByCreation(i, c) ==
  SelectSeq(log, LAMBDA x : x.by <= i) \o <<c @@ [by |-> i]>>
    \o SelectSeq(log, LAMBDA x : x.by > i)

\* The enqueue is issued inside the call, after all earlier ones.
Issued(i, c) == Append(log, c @@ [by |-> i])

\* Effect of one deliver/deliver_impl call with result r on promise i.
\* A call through a null handle is undefined: the process dies or goes on.
Apply(i, r, opname, arg) ==
  /\ proms' = Written(i, r)
  /\ pmeta' = [pmeta EXCEPT ![i].calls = @ + 1]
  /\ last' = [op |-> opname, p |-> i, pre |-> proms[i], arg |-> arg, n |-> Len(log)]
  /\ UNCHANGED req
  /\ IF r.calls = <<>>
     THEN UNCHANGED <<envs, emeta, log, crashed>>
     ELSE LET c == r.calls[1] IN
          /\ log' = Issued(i, c)
          /\ IF c.target = NullActor
             THEN /\ crashed' \in BOOLEAN
                  /\ UNCHANGED <<envs, emeta>>
             ELSE /\ envs' = Append(envs, Delivered(c))
                  /\ emeta' = Append(emeta,
                       IF c.kind = "forward"
                       THEN [root |-> emeta[pmeta[i].env].root,
                             hops |-> emeta[pmeta[i].env].hops + 1,
                             from |-> i, consumed |-> 0]
                       ELSE [root |-> Len(envs) + 1, hops |-> 0,
                             from |-> i, consumed |-> 0])
                  /\ UNCHANGED crashed

\* Number of deliver/deliver_impl calls made so far on promises 1..n.
RECURSIVE CallsMade(_)
CallsMade(n) == IF n = 0 THEN 0 ELSE pmeta[n].calls + CallsMade(n - 1)

CanCall(i) ==
  /\ ~crashed
  /\ i \in 1..Len(proms)
  /\ pmeta[i].alive
  /\ CallsMade(Len(proms)) < MaxCalls

DeliverImpl(i, msg) ==
  /\ CanCall(i)
  /\ Apply(i, deliver_impl(proms[i], msg), "deliver_impl", msg)

Deliver(i, x) ==
  /\ CanCall(i)
  /\ Apply(i, deliver(proms[i], x), "deliver", make_message(x))

\* The promise is abandoned: destroyed without any deliver call. No destructor
\* is defined, nothing is sent.
Drop(i) ==
  /\ ~crashed
  /\ i \in 1..Len(proms)
  /\ pmeta[i].alive
  /\ pmeta[i].calls = 0
  /\ pmeta' = [pmeta EXCEPT ![i].alive = FALSE]
  /\ last' = [op |-> "drop", p |-> i, pre |-> proms[i], arg |-> RequestPayload, n |-> Len(log)]
  /\ UNCHANGED <<envs, emeta, proms, log, crashed, req>>

Next ==
  \/ \E e \in 1..Len(envs) : Construct(e)
  \/ \E i \in 1..MaxPromises, msg \in ValueMessages : DeliverImpl(i, msg)
  \/ \E i \in 1..MaxPromises, x \in Errors : Deliver(i, x)
  \/ \E i \in 1..MaxPromises : Drop(i)

Spec == Init /\ [][Next]_vars

\* The pipeline run: every actor that is handed an envelope of the request
\* builds one promise from it and delivers through it once.
PipeConstruct(e) ==
  /\ emeta[e].root = 1
  /\ emeta[e].consumed = 0
  /\ Construct(e)

PipeDeliverImpl(i, msg) ==
  /\ i \in 1..Len(proms)
  /\ pmeta[i].calls = 0
  /\ DeliverImpl(i, msg)

PipeDeliver(i, x) ==
  /\ i \in 1..Len(proms)
  /\ pmeta[i].calls = 0
  /\ Deliver(i, x)

PipeNext ==
  \/ \E e \in 1..Len(envs) : PipeConstruct(e)
  \/ \E i \in 1..MaxPromises, msg \in ValueMessages : PipeDeliverImpl(i, msg)
  \/ \E i \in 1..MaxPromises, x \in Errors : PipeDeliver(i, x)

PipeSpec == Init /\ [][PipeNext]_vars /\ WF_vars(PipeNext)

\* One actor holding several requests: the mailbox hands the handler two
\* requests, the first with at most one forwarding stage, the second direct.
HeldEnvelopes == {a \in InitEnvelopes : Len(a.stages) <= 1}

DirectEnvelopes == {a \in InitEnvelopes : a.stages = <<>>}

HeldInit ==
  /\ envs \in {<<a, b>> : a \in HeldEnvelopes, b \in DirectEnvelopes}
  /\ emeta = <<[root |-> 1, hops |-> 0, from |-> 0, consumed |-> 0],
               [root |-> 2, hops |-> 0, from |-> 0, consumed |-> 0]>>
  /\ proms = <<>>
  /\ pmeta = <<>>
  /\ log = <<>>
  /\ crashed = FALSE
  /\ last = NoLast
  /\ req = envs[1]

\* The handler is the actor at work: it builds promises from the envelopes in
\* its own mailbox, delivers through them and drops them in any order.
HeldConstruct(e) ==
  /\ envs[e].owner = Handler
  /\ Construct(e)

HeldNext ==
  \/ \E e \in 1..Len(envs) : HeldConstruct(e)
  \/ \E i \in 1..MaxPromises, msg \in ValueMessages : DeliverImpl(i, msg)
  \/ \E i \in 1..MaxPromises, x \in Errors : Deliver(i, x)
  \/ \E i \in 1..MaxPromises : Drop(i)

HeldSpec == HeldInit /\ [][HeldNext]_vars

\* ================================================================ claims
Promises == DOMAIN proms
Enqueues == DOMAIN log
EnqueuesBy(i) == {k \in Enqueues : log[k].by = i}
IsDeliverOp == last.op \in {"deliver", "deliver_impl"}

\* C1: a valid promise with an empty forwarding chain issues at most one
\* terminal enqueue, however often deliver / deliver_impl is called on it.
C1_AtMostOneTerminalEnqueue ==
  \A i \in Promises :
    (/\ promise_valid(pmeta[i].made)
     /\ pmeta[i].made.stages_ = <<>>
     /\ pmeta[i].made.source_ # NullActor)
    => Cardinality({k \in EnqueuesBy(i) : log[k].kind = "terminal"}) <= 1

\* C2: once a promise has performed its forwarding enqueue, a further
\* deliver / deliver_impl call on it issues no enqueue at all, in particular
\* none through the moved-out sender handle.
C2_NoEnqueueAfterForward ==
  \A k \in Enqueues : \A j \in Enqueues :
    (log[k].kind = "forward" /\ j > k) => log[j].by # log[k].by

\* C3: deliver and deliver_impl on a promise whose id is invalid issue no
\* enqueue and leave sender, forwarding chain and id as constructed, for any
\* payload and any number of calls.
C3_InvalidPromiseNoOp ==
  /\ \A i \in Promises :
        ~valid(pmeta[i].made.id_) => (EnqueuesBy(i) = {} /\ proms[i] = pmeta[i].made)
  /\ (IsDeliverOp /\ ~valid(last.pre.id_)) =>
        (Len(log) = last.n /\ proms[last.p] = last.pre /\ ~crashed)

C3_Witness ==
  /\ last.op = "deliver"
  /\ ~valid(last.pre.id_)
  /\ last.pre.stages_ # <<>>
  /\ pmeta[last.p].calls >= 2

\* C4: deliver_impl(payload) on a valid promise that holds its sender and has
\* an empty forwarding chain issues exactly one enqueue: to the promise's
\* sender, signed with the delivering actor's address, tagged with
\* response_id() of the promise's id (for a request id: response role, same
\* number), carrying the payload passed in.
C4_TerminalDelivery ==
  (/\ last.op = "deliver_impl"
   /\ valid(last.pre.id_)
   /\ last.pre.stages_ = <<>>
   /\ last.pre.source_ # NullActor)
  => /\ Len(log) = last.n + 1
     /\ LET c == log[Len(log)] IN
          /\ c.by = last.p
          /\ c.kind = "terminal"
          /\ c.target = pmeta[last.p].made.source_
          /\ c.sender = envs[pmeta[last.p].env].owner
          /\ c.mid = response_id(last.pre.id_)
          /\ is_request(last.pre.id_) =>
                (is_response(c.mid) /\ c.mid.num = last.pre.id_.num)
          /\ c.payload = last.arg
          /\ envs[Len(envs)] = [owner |-> c.target, sender |-> c.sender, mid |-> c.mid,
                                 stages |-> <<>>, payload |-> last.arg]

C4_Witness ==
  /\ last.op = "deliver_impl"
  /\ is_request(last.pre.id_)
  /\ last.pre.stages_ = <<>>
  /\ last.pre.source_ = Originator
  /\ Len(log) = last.n + 1
  /\ log[Len(log)].target = Originator

\* C5: deliver_impl(payload) on a valid promise with forwarding chain
\* [r1..rN], N >= 1, issues exactly one enqueue: to rN, of a new envelope
\* with the promise's sender, the promise's id unchanged, the chain
\* [r1..r(N-1)] and the payload passed in; nothing is enqueued to the sender.
C5_ForwardingDelivery ==
  (/\ last.op = "deliver_impl"
   /\ valid(last.pre.id_)
   /\ last.pre.stages_ # <<>>)
  => LET st == last.pre.stages_
         N == Len(st)
     IN /\ Len(log) = last.n + 1
        /\ log[Len(log)].by = last.p
        /\ log[Len(log)].kind = "forward"
        /\ log[Len(log)].target = st[N]
        /\ envs[Len(envs)] =
             [owner |-> st[N], sender |-> last.pre.source_, mid |-> last.pre.id_,
              stages |-> [k \in 1..(N - 1) |-> st[k]], payload |-> last.arg]
        /\ last.pre.source_ = Originator
        /\ last.pre.id_ = req.mid

C5_Witness ==
  /\ last.op = "deliver_impl"
  /\ valid(last.pre.id_)
  /\ Len(last.pre.stages_) = 2
  /\ last.pre.stages_[1] # last.pre.stages_[2]
  /\ Len(log) = last.n + 1

\* The request's chain length, the promises and enqueues of the request.
N == Len(req.stages)
OfRequest(i) == emeta[pmeta[i].env].root = 1
HopsOf(i) == emeta[pmeta[i].env].hops
Forwards == {k \in Enqueues : log[k].kind = "forward"}
Terminals == {k \in Enqueues : log[k].kind = "terminal" /\ OfRequest(log[k].by)}

\* C6: when every actor that receives the request builds its promise and
\* delivers once, a valid request with chain length N makes N forwarding
\* hops, each on a chain one shorter, and then exactly one terminal enqueue
\* to the original sender with the response-role id; the run always gets there.
C6_Steps ==
  valid(req.mid) =>
    /\ Cardinality(Terminals) <= 1
    /\ Cardinality(Forwards) <= N
    /\ \A k \in Forwards : k <= N /\ Len(log[k].stages) = N - k
    /\ \A k \in Terminals :
          /\ k = N + 1
          /\ log[k].target = Originator
          /\ log[k].mid = [req.mid EXCEPT !.role = "response"]

C6_Finished == Cardinality(Terminals) = 1 /\ Cardinality(Forwards) = N

\* C6 (formula): the steps above hold throughout, and a valid request leads
\* to the finished exchange: N forwards and one terminal enqueue.
C6_EndToEnd == [](C6_Steps) /\ (valid(req.mid) ~> C6_Finished)

C6_Witness ==
  /\ N = 2
  /\ valid(req.mid)
  /\ C6_Finished
  /\ log[Len(log)].target = Originator

\* C7: the forwarding enqueues of the request visit rN, ..., r1 in that
\* order, each position once, and an enqueue to the sender is issued only by
\* the promise built after the hop at r1, when the chain is empty.
C7_LifoOrder ==
  /\ \A k \in Forwards :
        LET h == HopsOf(log[k].by) IN
          /\ h < N
          /\ log[k].target = req.stages[N - h]
          /\ log[k].stages = [j \in 1..(N - h - 1) |-> req.stages[j]]
          /\ \A j \in Forwards : j < k => HopsOf(log[j].by) < h
  /\ \A k \in Terminals :
        log[k].target # NullActor =>
          /\ HopsOf(log[k].by) = N
          /\ Cardinality({j \in Forwards : j < k}) = N

C7_Witness ==
  /\ N = 2
  /\ req.stages[1] # req.stages[2]
  /\ Cardinality(Forwards) = 2
  /\ \E k \in Terminals : log[k].target = Originator

\* C8: constructing a promise and dropping it undelivered issue no enqueue and
\* raise no error; every enqueue comes from a deliver / deliver_impl call.
C8_OnlyDeliverEnqueues ==
  /\ last.op \in {"construct", "drop"} => (Len(log) = last.n /\ ~crashed)
  /\ \A i \in Promises : pmeta[i].calls = 0 => EnqueuesBy(i) = {}
  /\ Len(log) <= CallsMade(Len(proms))

C8_Witness ==
  /\ last.op = "drop"
  /\ valid(last.pre.id_)
  /\ last.pre.source_ = Originator
  /\ ~pmeta[last.p].alive
  /\ pmeta[last.p].calls = 0
  /\ log = <<>>

\* C9: for every promise state and every error e, deliver(e) issues the same
\* enqueue calls and leaves the same promise state as
\* deliver_impl(make_message(e)).
C9_DeliverIsDeliverImpl ==
  /\ \A i \in Promises : \A x \in Errors :
        deliver(proms[i], x) = deliver_impl(proms[i], make_message(x))
  /\ last.op = "deliver" =>
        LET r == deliver_impl(last.pre, last.arg) IN
          /\ proms[last.p] = r.prom
          /\ Len(log) = last.n + Len(r.calls)
          /\ r.calls # <<>> => log[Len(log)] = r.calls[1] @@ [by |-> last.p]

C9_Witness ==
  /\ last.op = "deliver"
  /\ valid(last.pre.id_)
  /\ last.pre.stages_ # <<>>
  /\ Len(log) = last.n + 1
  /\ log[Len(log)].kind = "forward"
  /\ log[Len(log)].payload.kind = "error"

\* C10: response_id of a valid request-role id has response role and the same
\* number; so has the id on every terminal enqueue of a promise that holds a
\* request-role id.
C10_ResponseIdRole ==
  /\ \A r \in MessageIds :
        is_request(r) => (is_response(response_id(r)) /\ response_id(r).num = r.num)
  /\ \A k \in Enqueues :
        (log[k].kind = "terminal" /\ is_request(pmeta[log[k].by].made.id_)) =>
          /\ is_response(log[k].mid)
          /\ log[k].mid.num = pmeta[log[k].by].made.id_.num
          /\ OfRequest(log[k].by) => log[k].mid.num = req.mid.num

C10_Witness ==
  \E k \in Enqueues :
    /\ log[k].kind = "terminal"
    /\ log[k].target = Originator
    /\ log[k].mid = [num |-> 42, role |-> "response", answered |-> FALSE]

\* C11: response_id() is invoked (by the terminal branch of deliver_impl)
\* only on a valid request-role id; a promise holding a response-role id is
\* never answered.
C11_ResponseIdOnRequestsOnly ==
  \A k \in Enqueues :
    log[k].kind = "terminal" => is_request(pmeta[log[k].by].made.id_)

\* C12: a promise built from an envelope that was already consumed issues no
\* enqueue; in particular it never calls enqueue through the moved-out sender.
C12_SpentEnvelopeCannotDeliver ==
  \A i \in Promises : pmeta[i].spent => EnqueuesBy(i) = {}

\* The envelope e as it was put into the mailbox.
EnvOrigin(e) ==
  IF e = 1 THEN req
  ELSE LET k == CHOOSE k \in Enqueues :
                  /\ log[k].target # NullActor
                  /\ Cardinality({j \in 1..k : log[j].target # NullActor}) = e - 1
       IN  [owner |-> log[k].target, sender |-> log[k].sender, mid |-> log[k].mid,
            stages |-> log[k].stages, payload |-> log[k].payload]

\* C13: a consumed envelope has an empty sender, an empty forwarding chain and
\* an id marked as answered (otherwise the id it arrived with), whether or not
\* the promise is valid and whether or not it ever delivers.
C13_ConsumedEnvelopeIsSpent ==
  \A e \in DOMAIN envs :
    emeta[e].consumed > 0 =>
      /\ envs[e].sender = NullActor
      /\ envs[e].stages = <<>>
      /\ envs[e].mid = [EnvOrigin(e).mid EXCEPT !.answered = TRUE]
      /\ envs[e].owner = EnvOrigin(e).owner
      /\ envs[e].payload = EnvOrigin(e).payload

C13_Witness ==
  \E i \in Promises :
    /\ ~valid(proms[i].id_)
    /\ pmeta[i].calls = 0
    /\ ~pmeta[i].alive
    /\ EnvOrigin(pmeta[i].env).stages # <<>>
    /\ envs[pmeta[i].env].stages = <<>>
    /\ envs[pmeta[i].env].mid.answered

\* C14: a promise as constructed holds the sender, the forwarding chain (same
\* order) and the id the envelope held right before the constructor ran; the
\* id is the one before this construction's mark_as_answered(), so for a fresh
\* envelope it is unmarked although the envelope's id is now marked, and its
\* validity is the envelope's.
C14_PromiseHoldsEnvelopeState ==
  /\ \A i \in Promises :
        LET o == EnvOrigin(pmeta[i].env)
            made == pmeta[i].made
        IN  IF pmeta[i].spent
            THEN made = [self_ |-> o.owner, source_ |-> NullActor, stages_ |-> <<>>,
                         id_ |-> [o.mid EXCEPT !.answered = TRUE]]
            ELSE /\ made = [self_ |-> o.owner, source_ |-> o.sender,
                            stages_ |-> o.stages, id_ |-> o.mid]
                 /\ ~made.id_.answered
                 /\ envs[pmeta[i].env].mid.answered
                 /\ valid(made.id_) = valid(envs[pmeta[i].env].mid)
  /\ last.op = "construct" => proms[last.p] = pmeta[last.p].made

C14_Witness ==
  /\ last.op = "construct"
  /\ ~pmeta[last.p].spent
  /\ Len(proms[last.p].stages_) = 2
  /\ proms[last.p].stages_[1] # proms[last.p].stages_[2]
  /\ proms[last.p].source_ = Originator
  /\ valid(proms[last.p].id_)

\* C15: every forwarding enqueue of the request carries the original sender
\* and the original request-role id unchanged; a response-role id appears on
\* terminal enqueues only, and the terminal enqueue that reaches the
\* originator carries the response id of the request.
C15_IdentityAcrossHops ==
  /\ \A k \in Forwards :
        /\ log[k].sender = req.sender
        /\ log[k].mid = req.mid
        /\ is_request(log[k].mid)
  /\ \A k \in Enqueues : is_response(log[k].mid) => log[k].kind = "terminal"
  /\ \A k \in Terminals :
        log[k].target = Originator => log[k].mid = [req.mid EXCEPT !.role = "response"]

C15_Witness ==
  /\ Cardinality(Forwards) = 2
  /\ \E k \in Terminals : log[k].target = Originator /\ is_response(log[k].mid)

\* C16: the sender handle and the remaining forwarding chain of the request
\* have at most one holder, an unspent envelope or one promise; the
\* constructor leaves the envelope empty, and a forwarding delivery leaves
\* the promise with an empty sender and an empty chain.
SenderHolders ==
  Cardinality({e \in DOMAIN envs : emeta[e].root = 1 /\ envs[e].sender # NullActor})
  + Cardinality({i \in Promises : OfRequest(i) /\ proms[i].source_ # NullActor})

ChainHolders ==
  Cardinality({e \in DOMAIN envs : envs[e].stages # <<>>})
  + Cardinality({i \in Promises : proms[i].stages_ # <<>>})

C16_ExclusiveOwnership ==
  /\ SenderHolders <= 1
  /\ ChainHolders <= 1
  /\ last.op = "construct" =>
        (envs[pmeta[last.p].env].sender = NullActor /\ envs[pmeta[last.p].env].stages = <<>>)
  /\ (IsDeliverOp /\ Len(log) > last.n /\ log[Len(log)].kind = "forward") =>
        (proms[last.p].source_ = NullActor /\ proms[last.p].stages_ = <<>>)

C16_Witness ==
  /\ IsDeliverOp
  /\ Len(log) = 2
  /\ log[2].kind = "forward"
  /\ log[2].by = 2
  /\ envs[Len(envs)].sender = Originator
  /\ SenderHolders = 1

\* C17: the enqueues of the promises an actor holds appear in the order of
\* the deliver / deliver_impl calls: a call's enqueue is issued within the
\* call, behind every enqueue issued before, whatever the creation order.
C17_EnqueueOrderIsCallOrder ==
  [][/\ Len(log') >= Len(log)
     /\ SubSeq(log', 1, Len(log)) = log
     /\ Len(log') > Len(log) =>
          /\ Len(log') = Len(log) + 1
          /\ last'.op \in {"deliver", "deliver_impl"}
          /\ last'.n = Len(log)
          /\ log'[Len(log')].by = last'.p]_vars

C17_Witness ==
  /\ Len(log) = 2
  /\ log[1].by = 2
  /\ log[2].by = 1
  /\ proms[1].self_ = Handler
  /\ proms[2].self_ = Handler
  /\ log[1].target # NullActor
  /\ log[2].target # NullActor

\* C18: a promise that has not been delivered yet is as it was constructed,
\* whatever the actor did meanwhile with other envelopes and promises, and
\* its first deliver issues the enqueue a deliver right after construction
\* would have issued (same target, id, chain and payload).
C18_DeferredDelivery ==
  /\ \A i \in Promises : pmeta[i].calls = 0 => proms[i] = pmeta[i].made
  /\ (IsDeliverOp /\ pmeta[last.p].calls = 1) =>
        LET r == deliver_impl(pmeta[last.p].made, last.arg) IN
          /\ last.pre = pmeta[last.p].made
          /\ Len(log) = last.n + Len(r.calls)
          /\ r.calls # <<>> => log[Len(log)] = r.calls[1] @@ [by |-> last.p]

C18_Witness ==
  /\ IsDeliverOp
  /\ last.p = 1
  /\ pmeta[1].calls = 1
  /\ last.pre.stages_ # <<>>
  /\ valid(last.pre.id_)
  /\ Len(log) = 2
  /\ log[1].by = 2
  /\ proms[2].self_ = Handler
  /\ \E j \in Promises : ~pmeta[j].alive

\* C19: no deliver / deliver_impl call changes the promise's id: the promise
\* is valid exactly if it was constructed valid, also after it has delivered.
C19_ValidityFixed ==
  /\ \A i \in Promises :
        /\ proms[i].id_ = pmeta[i].made.id_
        /\ promise_valid(proms[i]) = valid(EnvOrigin(pmeta[i].env).mid)
  /\ IsDeliverOp => proms[last.p].id_ = last.pre.id_

C19_Witness ==
  /\ IsDeliverOp
  /\ pmeta[last.p].calls >= 2
  /\ Cardinality(EnqueuesBy(last.p)) >= 2
  /\ promise_valid(proms[last.p])
  /\ log[Len(log)].target = Originator

\* C20: a terminal delivery (valid promise, empty chain) leaves sender, chain
\* and id of the promise as they were before the call; a call changes the
\* promise only if it is a forwarding delivery, which empties sender and chain.
C20_TerminalLeavesPromise ==
  IsDeliverOp =>
    /\ (valid(last.pre.id_) /\ last.pre.stages_ = <<>>) =>
          (Len(log) = last.n + 1 /\ proms[last.p] = last.pre)
    /\ proms[last.p] # last.pre =>
          /\ valid(last.pre.id_)
          /\ last.pre.stages_ # <<>>
          /\ log[Len(log)].kind = "forward"
          /\ proms[last.p] = [last.pre EXCEPT !.source_ = NullActor, !.stages_ = <<>>]

C20_Witness ==
  /\ last.op = "deliver_impl"
  /\ valid(last.pre.id_)
  /\ last.pre.stages_ = <<>>
  /\ last.pre.source_ = Originator
  /\ log[Len(log)].by = last.p
  /\ proms[last.p].source_ = Originator

====
